---------------------------- MODULE Spec2Model ----------------------------
(***************************************************************************)
(* A model of the canvas renderer's two presets: TextGraphics              *)
(* (src/src/TextGraphics/index.ts) and rectangle (src/unnamed/part_000).   *)
(*                                                                         *)
(* Lengths.  Caller inputs are whole pixels.  The width model uses the     *)
(* factor 0.5 and the centre alignment halves a difference, so every       *)
(* length the program computes is a multiple of a quarter pixel.  The      *)
(* model stores every length in quarter pixels (Px(n) = 4n) and every      *)
(* width factor doubled (get_char_width = 1 for 0.5, 2 for 1), which keeps *)
(* the arithmetic exact in the integers.                                   *)
(*                                                                         *)
(* Strings.  A string is the sequence of its code points; the number of    *)
(* UTF-16 code units of a code point is 1 in the basic plane and 2 above   *)
(* it.  `for (const char of str)` walks the code points, `str.length`      *)
(* counts the code units, and `char.charCodeAt(0)` is the first code unit. *)
(*                                                                         *)
(* Optional values.  An optional number is a sequence of length 0 (unset)  *)
(* or 1.  A padding is a sequence of length 0 (unset), 1 (a number), 2 or  *)
(* 4 (an array); a radius of length 0, 1 or 4.  An unset colour, image or  *)
(* alignment is the empty string, which the code treats like undefined.    *)
(*                                                                         *)
(* Paint log.  Every call the program makes on the drawing context is      *)
(* appended to `calls` as [by, op, a, s]: the function that made it, the   *)
(* context method, its numeric arguments and its string argument.  Angles  *)
(* are in units of PI/2.  A call that paints text carries it in str.       *)
(***************************************************************************)
EXTENDS Integers, Sequences, FiniteSets, TLC

VARIABLES
    preset,      \* "TextGraphics" or "rectangle": the entry point called
    options,     \* the options object the caller passed
    content,     \* the caller's content value as it is now (an array is shared)
    pc,          \* "start", "awaitImage", "awaitDrawCtx", "done", "rejected"
    error,       \* "" or the error the returned promise rejected with
    image,       \* the promise of loadImage: "none", "pending", "loaded", "failed"
    width,       \* canvas.width  (quarter pixels)
    height,      \* canvas.height (quarter pixels)
    pad,         \* <<_top, _right, _bottom, _left>> (quarter pixels)
    text,        \* _text: the lines TextGraphics lays out
    calls        \* the drawing-context calls made so far

vars == <<preset, options, content, pc, error, image, width, height, pad, text, calls>>

---------------------------------------------------------------------------
(* Numbers and sequences *)

Px(n) == 4 * n

\* factor * length, the factor being stored doubled
Times(w2, len) == (w2 * len) \div 2

Truthy(n) == n # 0

OrDefault(opt, d) == IF Len(opt) = 0 THEN d ELSE opt[1]

RECURSIVE Concat(_)
Concat(ss) == IF ss = <<>> THEN <<>> ELSE Head(ss) \o Concat(Tail(ss))

RECURSIVE SeqSum(_)
SeqSum(s) == IF s = <<>> THEN 0 ELSE Head(s) + SeqSum(Tail(s))

Call(by, op, a, s) == [by |-> by, op |-> op, a |-> a, s |-> s, str |-> <<>>]

\* a call that paints the string str
TextCall(by, op, a, str) == [by |-> by, op |-> op, a |-> a, s |-> "", str |-> str]

---------------------------------------------------------------------------
(* Strings *)

\* the number of UTF-16 code units of a code point
Units(cp) == IF cp > 65535 THEN 2 ELSE 1

\* str.length
Length(str) == SeqSum([i \in 1..Len(str) |-> Units(str[i])])

\* char.charCodeAt(0): the code unit, or the high surrogate of a pair
charCodeAt0(cp) == IF cp > 65535 THEN 55296 + ((cp - 65536) \div 1024) ELSE cp

\* TextGraphics get_char_width, doubled: 0.5 -> 1, 1 -> 2
get_char_width(cp) == IF charCodeAt0(cp) < 128 /\ charCodeAt0(cp) >= 0 THEN 1 ELSE 2

\* TextGraphics get_string_width, doubled
get_string_width(str) == SeqSum([i \in 1..Len(str) |-> get_char_width(str[i])])

\* rectangle get_string_width, doubled: both branches of its conditional are 1
rect_get_string_width(str) ==
    SeqSum([i \in 1..Len(str) |->
        IF charCodeAt0(str[i]) < 128 /\ charCodeAt0(str[i]) >= 0 THEN 2 ELSE 2])

\* Array.prototype.filter(Boolean) on an array of strings
RECURSIVE FilterBoolean(_)
FilterBoolean(arr) ==
    IF arr = <<>> THEN <<>>
    ELSE IF Head(arr) = <<>> THEN FilterBoolean(Tail(arr))
    ELSE <<Head(arr)>> \o FilterBoolean(Tail(arr))

\* deepCopy(text).reduce((prev, curr) => width(prev) > width(curr) ? prev : curr)
RECURSIVE ReduceMaxText(_, _)
ReduceMaxText(prev, rest) ==
    IF rest = <<>> THEN prev
    ELSE ReduceMaxText(
            IF get_string_width(prev) > get_string_width(Head(rest))
            THEN prev ELSE Head(rest),
            Tail(rest))

MaxText(arr) == ReduceMaxText(Head(arr), Tail(arr))

---------------------------------------------------------------------------
(* Options *)

EmptyBorderStyle == [color |-> "", width |-> <<>>, radius |-> <<>>]

\* `borderStyle = {}` in the destructuring of the options
BorderStyleOf(o) == IF o.borderStyle = <<>> THEN EmptyBorderStyle ELSE o.borderStyle[1]

\* [_top, _right, _bottom, _left]: the padding normalised, the border width added
Padding(o) ==
    LET padding == o.fontStyle.padding
        borderWidth == Px(OrDefault(BorderStyleOf(o).width, 0))
        p == IF Len(padding) > 1
             THEN IF Len(padding) = 2
                  THEN <<padding[1], padding[2], padding[1], padding[2]>>
                  ELSE <<padding[1], padding[2], padding[3], padding[4]>>
             ELSE LET n == OrDefault(padding, 0) IN <<n, n, n, n>>
    IN  IF Truthy(borderWidth)
        THEN [i \in 1..4 |-> Px(p[i]) + borderWidth]
        ELSE [i \in 1..4 |-> Px(p[i])]

\* [lt, rt, rb, lb] of a radius (a number or an array of four)
Radii(radius) ==
    IF Len(radius) > 1
    THEN <<Px(radius[1]), Px(radius[2]), Px(radius[3]), Px(radius[4])>>
    ELSE LET r == Px(OrDefault(radius, 0)) IN <<r, r, r, r>>

---------------------------------------------------------------------------
(* TextGraphics: sizes *)

\* _text: content as an array of lines, copied, the empty lines filtered out
TG_Text(c) ==
    FilterBoolean(
        IF c.kind = "undefined" \/ (c.kind = "string" /\ c.lines[1] = <<>>) THEN <<>>
        ELSE c.lines)

TG_FontSize(o) == Px(OrDefault(o.fontStyle.size, 12))

TG_AutoWidth(o, _text, p) ==
    LET _maxText == MaxText(_text)
        _maxTextWidth == get_string_width(_maxText)
    IN  Times(_maxTextWidth, TG_FontSize(o)) + (p[4] + p[2])
        + (Length(_maxText) - 1) * Px(OrDefault(o.fontStyle.letterSpacing, 0))

TG_AutoHeight(o, _text, p) ==
    LET _rows == Len(_text)
    IN  _rows * TG_FontSize(o) + (p[1] + p[3])
        + (_rows - 1) * Px(OrDefault(o.fontStyle.rowGap, 0))
        - (IF _rows % 2 = 0 THEN Px(2) ELSE Px(4))

TG_Width(o, c) ==
    LET _text == TG_Text(c)
    IN  IF Len(o.width) = 1 THEN Px(o.width[1])
        ELSE IF Len(_text) # 0 THEN TG_AutoWidth(o, _text, Padding(o))
        ELSE 0

TG_Height(o, c) ==
    LET _text == TG_Text(c)
    IN  IF Len(o.height) = 1 THEN Px(o.height[1])
        ELSE IF Len(_text) # 0 THEN TG_AutoHeight(o, _text, Padding(o))
        ELSE 0

---------------------------------------------------------------------------
(* TextGraphics: drawCtx *)

\* the outline drawCtx traces before ctx.clip()
TG_ClipPath(w, h, radius) ==
    LET r == Radii(radius)
        lt == r[1]
        rt == r[2]
        rb == r[3]
        lb == r[4]
        C(op, a) == Call("drawCtx", op, a, "")
    IN  (IF Truthy(lt) THEN <<C("arc", <<lt, lt, lt, 2, 3>>)>>
         ELSE <<C("moveTo", <<0, 0>>)>>)
        \o
        (IF Truthy(rt) THEN <<C("lineTo", <<w - rt, 0>>), C("arc", <<w - rt, rt, rt, 3, 0>>)>>
         ELSE <<C("lineTo", <<w, 0>>)>>)
        \o
        (IF Truthy(rb) THEN <<C("lineTo", <<w, h - rb>>), C("arc", <<w - rb, h - rb, rb, 0, 1>>)>>
         ELSE <<C("lineTo", <<w, h>>)>>)
        \o
        (IF Truthy(lb) THEN <<C("lineTo", <<lb, h>>), C("arc", <<lb, h - lb, lb, 1, 2>>)>>
         ELSE <<C("lineTo", <<0, h>>)>>)
        \o <<C("clip", <<>>)>>

\* a gradient stop key (in tenths) is an array index of the object iff it is a
\* whole number: the property keys "0" and "1", but not "0.5"
IsArrayIndex(key) == key % 10 = 0

\* the keys of a set, in ascending order
RECURSIVE AscendingKeys(_)
AscendingKeys(keys) ==
    IF keys = {} THEN <<>>
    ELSE LET m == CHOOSE k \in keys : \A j \in keys : k <= j
         IN  <<m>> \o AscendingKeys(keys \ {m})

\* the subsequence of the stops whose key is not an array index
RECURSIVE StringKeys(_)
StringKeys(stops) ==
    IF stops = <<>> THEN <<>>
    ELSE IF IsArrayIndex(Head(stops).key) THEN StringKeys(Tail(stops))
    ELSE <<Head(stops).key>> \o StringKeys(Tail(stops))

\* Object.keys(backgroundColor): the array-index keys ascending, then the
\* other keys in the order they were added to the object
ObjectKeys(stops) ==
    AscendingKeys({stops[i].key : i \in {j \in 1..Len(stops) : IsArrayIndex(stops[j].key)}})
    \o StringKeys(stops)

\* backgroundColor[+key]
ColorAt(stops, key) == (CHOOSE i \in 1..Len(stops) : stops[i].key = key)

TG_Fill(w, h, color) ==
    IF color.kind = "none" THEN <<>>
    ELSE IF color.kind = "solid"
    THEN <<Call("drawCtx", "fillRect", <<0, 0, w, h>>, color.solid)>>
    ELSE LET keys == ObjectKeys(color.stops)
         IN  <<Call("drawCtx", "createLinearGradient", <<0, 0, w, h>>, "")>>
             \o [i \in 1..Len(keys) |->
                    Call("drawCtx", "addColorStop", <<keys[i]>>,
                         color.stops[ColorAt(color.stops, keys[i])].color)]
             \o <<Call("drawCtx", "fillRect", <<0, 0, w, h>>, "gradient")>>

HasBackground(bg) == bg.color.kind # "none" \/ bg.image # ""

\* drawCtx up to its await (or to its end when there is no image)
TG_drawCtxSync(w, h, radius, bg) ==
    IF ~HasBackground(bg) THEN <<>>
    ELSE TG_ClipPath(w, h, radius) \o TG_Fill(w, h, bg.color)
         \o (IF bg.image # "" THEN <<Call("drawCtx", "loadImage", <<>>, bg.image)>> ELSE <<>>)

\* the natural size of the decoded image, in pixels
ImageWidth == 100
ImageHeight == 200

\* one axis of backgroundSize: a number string, or a percentage of the natural size
SizeAxis(sz, natural) ==
    IF sz.unit = "px" THEN Px(sz.n) ELSE (sz.n * natural) \div 100

\* drawCtx after loadImage resolved
TG_drawCtxImage(bg) ==
    LET pos == IF Len(bg.position) = 0 THEN <<0, 0>>
               ELSE IF Len(bg.position) = 2 THEN <<Px(bg.position[1]), Px(bg.position[2])>>
               ELSE IF Truthy(bg.position[1])
                    THEN <<Px(bg.position[1]), Px(bg.position[1])>> ELSE <<0, 0>>
        sz == IF Len(bg.size) = 0 THEN <<Px(ImageWidth), Px(ImageHeight)>>
              ELSE LET ws == bg.size[1]
                       hs == IF Len(bg.size) = 2 THEN bg.size[2] ELSE bg.size[1]
                   IN  <<SizeAxis(ws, Px(ImageWidth)), SizeAxis(hs, Px(ImageHeight))>>
    IN  <<Call("drawCtx", "drawImage", <<pos[1], pos[2], sz[1], sz[2]>>, bg.image)>>

---------------------------------------------------------------------------
(* drawBorder *)

\* the Path2D outline of drawBorder; rectangle's drawBorder has the same statements
BorderPath(w, h, borderRadius) ==
    LET r == Radii(borderRadius)
        lt == r[1]
        rt == r[2]
        rb == r[3]
        lb == r[4]
        C(op, a) == Call("drawBorder", op, a, "")
    IN  << C("moveTo", <<lt, 0>>),
           C("lineTo", <<w - lt, 0>>),
           C("arc", <<w - lt, lt, lt, 3, 0>>),
           C("lineTo", <<w, h - lb>>),
           C("arc", <<w - lb, h - lb, lb, 0, 1>>),
           C("lineTo", <<rt, h>>),
           C("arc", <<rt, h - rt, rt, 1, 2>>),
           C("lineTo", <<0, rb>>),
           C("arc", <<rb, rb, rb, 2, 3>>) >>

TG_drawBorder(w, h, borderStyle) ==
    LET borderColor == borderStyle.color
        borderWidth == Px(OrDefault(borderStyle.width, 0))
    IN  IF ~Truthy(borderWidth) \/ borderColor = "" THEN <<>>
        ELSE BorderPath(w, h, borderStyle.radius)
             \o <<Call("drawBorder", "stroke", <<borderWidth>>, borderColor)>>

---------------------------------------------------------------------------
(* TextGraphics: drawText *)

_calculateLeft(maxTextLength, textLenth, textAlign) ==
    (IF textAlign = "center" THEN (maxTextLength - textLenth) \div 2 ELSE 0)
    + (IF textAlign = "right" THEN maxTextLength - textLenth ELSE 0)

\* the advance of the cursor over one character
Advance(cp, fontSize, letterSpacing) ==
    Times(get_char_width(cp), fontSize) + letterSpacing

RECURSIVE drawRowText(_, _, _, _, _, _)
drawRowText(str, left, top, fontSize, borderWidth, letterSpacing) ==
    IF str = <<>> THEN <<>>
    ELSE <<TextCall("drawText", "fillText", <<left, top>>, <<Head(str)>>)>>
         \o (IF Truthy(borderWidth)
             THEN <<TextCall("drawText", "strokeText", <<left, top>>, <<Head(str)>>)>>
             ELSE <<>>)
         \o drawRowText(Tail(str), left + Advance(Head(str), fontSize, letterSpacing),
                        top, fontSize, borderWidth, letterSpacing)

\* the pixel width drawText measures for one line
TextLenth(str, fontSize, letterSpacing) ==
    Times(get_string_width(str), fontSize) + (Length(str) - 1) * letterSpacing

\* _maxTextLength of drawText
MaxTextLength(maxTextLength, _text, fontSize, letterSpacing) ==
    IF Truthy(maxTextLength) THEN maxTextLength
    ELSE IF Len(_text) # 0 THEN TextLenth(MaxText(_text), fontSize, letterSpacing)
    ELSE 0

TG_drawText(maxTextLength, _text, fontStyle, top, left, rowGap) ==
    LET fontSize == Px(OrDefault(fontStyle.size, 12))
        borderWidth == Px(OrDefault(fontStyle.borderWidth, 0))
        letterSpacing == Px(OrDefault(fontStyle.letterSpacing, 0))
        textAlign == IF fontStyle.textAlign = "" THEN "left" ELSE fontStyle.textAlign
        _maxTextLength == MaxTextLength(maxTextLength, _text, fontSize, letterSpacing)
        _top == top + fontSize \div 2
        Row(i) ==
            drawRowText(_text[i],
                        left + _calculateLeft(_maxTextLength,
                                   TextLenth(_text[i], fontSize, letterSpacing), textAlign),
                        _top + fontSize * (i - 1) + rowGap * (i - 1),
                        fontSize, borderWidth, letterSpacing)
    IN  Concat([i \in 1..Len(_text) |-> Row(i)])

---------------------------------------------------------------------------
(* rectangle *)

\* +(fontSize.match(/(\d+)/)?.[0] ?? '12'): the size string is modelled by the
\* runs of digits in it; an unset size is '12px'
Rect_Matches(o) == Px(IF Len(o.fontStyle.size) = 0 THEN 12 ELSE o.fontStyle.size[1])

\* arr with x put after the last element that is not shorter than x
RECURSIVE InsertByLength(_, _)
InsertByLength(arr, x) ==
    IF arr = <<>> THEN <<x>>
    ELSE IF Length(Head(arr)) >= Length(x)
    THEN <<Head(arr)>> \o InsertByLength(Tail(arr), x)
    ELSE <<x>> \o arr

\* content.sort((a, b) => b.length - a.length): stable, longest first
RECURSIVE SortByLength(_)
SortByLength(arr) ==
    IF arr = <<>> THEN <<>>
    ELSE InsertByLength(SortByLength(SubSeq(arr, 1, Len(arr) - 1)), arr[Len(arr)])

\* `content` as a condition: an array, or a string that is not empty
Rect_HasContent(c) == c.kind = "array" \/ (c.kind = "string" /\ c.lines[1] # <<>>)

\* the caller's array after rectangle sized the canvas: sorted in place when the
\* width is 'auto'
Rect_ContentAfter(o, c) ==
    IF Rect_HasContent(c) /\ Len(o.width) = 0 /\ c.kind = "array"
    THEN [c EXCEPT !.lines = SortByLength(c.lines)]
    ELSE c

\* get_string_width(undefined) throws: an empty array has no first element
Rect_Throws(o, c) == c.kind = "array" /\ c.lines = <<>> /\ Len(o.width) = 0

Rect_Width(o, c) ==
    IF Len(o.width) = 1 THEN Px(o.width[1])
    ELSE IF Rect_HasContent(c)
    THEN LET p == Padding(o)
             _maxTextLength ==
                 IF c.kind = "array"
                 THEN rect_get_string_width(SortByLength(c.lines)[1])
                 ELSE rect_get_string_width(c.lines[1])
         IN  Times(_maxTextLength, Rect_Matches(o)) + (p[4] + p[2])
    ELSE 0

Rect_Height(o, c) ==
    IF Len(o.height) = 1 THEN Px(o.height[1])
    ELSE IF Rect_HasContent(c)
    THEN LET p == Padding(o)
             _rows == IF c.kind = "array" THEN Len(c.lines) ELSE 1
         IN  _rows * Rect_Matches(o) + (p[1] + p[3])
             + (_rows - 1) * Px(OrDefault(o.fontStyle.rowGap, 0))
    ELSE 0

Rect_drawCtx(w, h, radius, backgroundColor) ==
    LET r == Radii(radius)
        lt == r[1]
        rt == r[2]
        rb == r[3]
        lb == r[4]
        C(op, a) == Call("drawCtx", op, a, "")
    IN  << C("beginPath", <<>>),
           C("arc", <<lt, lt, lt, 2, 3>>),
           C("lineTo", <<w - rt, 0>>),
           C("arc", <<w - rt, rt, rt, 3, 0>>),
           C("lineTo", <<w, h - rb>>),
           C("arc", <<w - rb, h - rb, rb, 0, 1>>),
           C("lineTo", <<lb, h>>),
           C("arc", <<lb, h - lb, lb, 1, 2>>),
           C("closePath", <<>>),
           Call("drawCtx", "fillRect", <<0, 0, w, h>>,
                IF backgroundColor = "" THEN "#ffffff00" ELSE backgroundColor) >>

Rect_drawBorder(w, h, borderStyle) ==
    BorderPath(w, h, borderStyle.radius)
    \o <<Call("drawBorder", "stroke", <<Px(OrDefault(borderStyle.width, 0))>>,
              IF borderStyle.color = "" THEN "#fff" ELSE borderStyle.color)>>

Rect_drawText(c, o, top, left, rowGap) ==
    IF c.kind = "array"
    THEN [i \in 1..Len(c.lines) |->
            TextCall("drawText", "fillText",
                     <<left, Rect_Matches(o) * i + top + (IF i # 1 THEN rowGap ELSE 0)>>,
                     c.lines[i])]
    ELSE <<TextCall("drawText", "fillText", <<left, top>>, c.lines[1])>>

---------------------------------------------------------------------------
(* Inputs *)

MaxLineLen == 2     \* code points per line
MaxLines == 2       \* lines per content array
MaxStops == 3       \* stops per gradient
MaxRadius == 2      \* corner radius, in pixels

\* "A", a CJK ideograph of the basic plane, an emoji above it
Chars == {65, 25991, 128512}

Lines == UNION {[1..n -> Chars] : n \in 0..MaxLineLen}

Arrays(lines) == UNION {[1..n -> lines] : n \in 0..MaxLines}

NoContent == [kind |-> "undefined", lines |-> <<>>]
StringContent(str) == [kind |-> "string", lines |-> <<str>>]
ArrayContent(arr) == [kind |-> "array", lines |-> arr]

NoColor == [kind |-> "none", solid |-> "", stops |-> <<>>]
Solid(c) == [kind |-> "solid", solid |-> c, stops |-> <<>>]
Gradient(stops) == [kind |-> "gradient", solid |-> "", stops |-> stops]

NoBackground == [color |-> NoColor, image |-> "", size |-> <<>>, position |-> <<>>]

NoFontStyle ==
    [size |-> <<>>, padding |-> <<>>, rowGap |-> <<>>, textAlign |-> "",
     letterSpacing |-> <<>>, borderWidth |-> <<>>]

\* the options object {}
NoOptions ==
    [borderStyle |-> <<>>, backgroundStyle |-> NoBackground, backgroundColor |-> "",
     fontStyle |-> NoFontStyle, width |-> <<>>, height |-> <<>>]

Border(color, w, radius) == <<[color |-> color, width |-> w, radius |-> radius]>>

\* The orchestration inputs: every way of sizing, with and without content,
\* border and background (colour, image, both).
PipelineContents ==
    {NoContent, StringContent(<<>>), StringContent(<<65, 25991>>)}
    \cup {ArrayContent(a) : a \in Arrays({<<>>, <<65>>, <<25991, 65>>})}

PipelineOptions ==
    {[NoOptions EXCEPT
        !.width = w, !.height = h, !.borderStyle = b,
        !.backgroundStyle = [NoBackground EXCEPT !.color = bg[1], !.image = bg[2]],
        !.backgroundColor = bg[1].solid,
        !.fontStyle = [NoFontStyle EXCEPT !.padding = p]] :
      w \in {<<>>, <<0>>, <<20>>}, h \in {<<>>, <<0>>, <<20>>},
      b \in {<<>>, Border("", <<0>>, <<>>), Border("#f00", <<0>>, <<>>),
             Border("", <<1>>, <<>>), Border("#f00", <<1>>, <<>>)},
      bg \in {<<NoColor, "">>, <<Solid("#eee"), "">>, <<NoColor, "a.png">>,
              <<Solid("#eee"), "a.png">>},
      p \in {<<>>, <<1>>}}

\* The outline inputs: every radius, a number or four of them.
OutlineOptions ==
    {[NoOptions EXCEPT
        !.width = <<20>>, !.height = <<20>>, !.borderStyle = Border("#f00", <<1>>, r),
        !.backgroundStyle = [NoBackground EXCEPT !.color = Solid("#eee")],
        !.backgroundColor = "#eee"] :
      r \in [1..1 -> 0..MaxRadius] \cup [1..4 -> 0..MaxRadius]}

\* The gradient inputs: every object of up to MaxStops stops, the keys (in
\* tenths) in every order of insertion.
StopKeys == {0, 3, 5, 10}

GradientObjects ==
    {s \in UNION {[1..n -> StopKeys] : n \in 1..MaxStops} :
        \A i, j \in 1..Len(s) : i # j => s[i] # s[j]}

GradientOptions ==
    {[NoOptions EXCEPT
        !.width = <<20>>, !.height = <<20>>,
        !.backgroundStyle = [NoBackground EXCEPT !.color =
            Gradient([i \in 1..Len(s) |-> [key |-> s[i], color |-> "#ccc"]])]] :
      s \in GradientObjects}

\* The layout inputs: every content, alignment and letter spacing, the width
\* computed or given.
LayoutOptions ==
    {[NoOptions EXCEPT
        !.width = w,
        !.fontStyle = [NoFontStyle EXCEPT
            !.textAlign = al, !.letterSpacing = ls, !.padding = p]] :
      w \in {<<>>, <<2>>, <<40>>}, al \in {"", "center", "right"},
      ls \in {<<>>, <<3>>}, p \in {<<>>, <<1>>}}

---------------------------------------------------------------------------
(* The render *)

Start(presets, inputs, contents) ==
    /\ preset \in presets
    /\ options \in inputs
    /\ content \in contents
    /\ pc = "start"
    /\ error = ""
    /\ image = "none"
    /\ width = 0
    /\ height = 0
    /\ pad = <<0, 0, 0, 0>>
    /\ text = <<>>
    /\ calls = <<>>

Init == Start({"TextGraphics", "rectangle"}, PipelineOptions, PipelineContents)

\* TextGraphicsCall with the `await` before drawCtx(...) dropped: drawBorder and
\* drawText run while the image is still loading
TextGraphicsCall_NoAwait ==
    /\ pc = "start"
    /\ preset = "TextGraphics"
    /\ pad' = Padding(options)
    /\ text' = TG_Text(content)
    /\ width' = TG_Width(options, content)
    /\ height' = TG_Height(options, content)
    /\ IF Truthy(width') /\ Truthy(height')
       THEN /\ calls' = TG_drawCtxSync(width', height', BorderStyleOf(options).radius,
                                       options.backgroundStyle)
                  \o TG_drawBorder(width', height', BorderStyleOf(options))
                  \o TG_drawText(width' - (pad'[4] + pad'[2]), text', options.fontStyle,
                         pad'[1], pad'[4], Px(OrDefault(options.fontStyle.rowGap, 0)))
            /\ IF options.backgroundStyle.image # ""
               THEN pc' = "awaitImage" /\ image' = "pending"
               ELSE pc' = "done" /\ image' = image
       ELSE /\ calls' = <<>>
            /\ pc' = "done"
            /\ image' = image
    /\ UNCHANGED <<preset, options, content, error>>

\* TextGraphics, from its call to its first await; the canvas is created here
TextGraphicsCall ==
    /\ pc = "start"
    /\ preset = "TextGraphics"
    /\ pad' = Padding(options)
    /\ text' = TG_Text(content)
    /\ width' = TG_Width(options, content)
    /\ height' = TG_Height(options, content)
    /\ IF Truthy(width') /\ Truthy(height')
       THEN /\ calls' = TG_drawCtxSync(width', height', BorderStyleOf(options).radius,
                                       options.backgroundStyle)
            /\ IF options.backgroundStyle.image # ""
               THEN pc' = "awaitImage" /\ image' = "pending"
               ELSE pc' = "awaitDrawCtx" /\ image' = image
       ELSE /\ calls' = <<>>
            /\ pc' = "done"
            /\ image' = image
    /\ UNCHANGED <<preset, options, content, error>>

\* loadImage resolves: drawCtx draws the image and returns
LoadImageResolve ==
    /\ pc = "awaitImage"
    /\ calls' = calls \o TG_drawCtxImage(options.backgroundStyle)
    /\ pc' = "awaitDrawCtx"
    /\ image' = "loaded"
    /\ UNCHANGED <<preset, options, content, error, width, height, pad, text>>

\* LoadImageReject with the rejection caught inside drawCtx: the render goes on
LoadImageReject_Caught ==
    /\ pc = "awaitImage"
    /\ pc' = "awaitDrawCtx"
    /\ image' = "failed"
    /\ UNCHANGED <<preset, options, content, error, width, height, pad, text, calls>>

\* loadImage rejects: drawCtx rejects, and so does TextGraphics
LoadImageReject ==
    /\ pc = "awaitImage"
    /\ pc' = "rejected"
    /\ error' = "loadImage"
    /\ image' = "failed"
    /\ UNCHANGED <<preset, options, content, width, height, pad, text, calls>>

\* TextGraphics after `await drawCtx(...)`: drawBorder, drawText, return canvas
TextGraphicsResume ==
    /\ pc = "awaitDrawCtx"
    /\ calls' = calls
          \o TG_drawBorder(width, height, BorderStyleOf(options))
          \o TG_drawText(width - (pad[4] + pad[2]), text, options.fontStyle,
                         pad[1], pad[4], Px(OrDefault(options.fontStyle.rowGap, 0)))
    /\ pc' = "done"
    /\ UNCHANGED <<preset, options, content, error, image, width, height, pad, text>>

\* rectangle: it awaits nothing and runs from its call to its return
RectangleCall ==
    /\ pc = "start"
    /\ preset = "rectangle"
    /\ pad' = Padding(options)
    /\ text' = text
    /\ IF Rect_Throws(options, content)
       THEN /\ pc' = "rejected"
            /\ error' = "TypeError"
            /\ UNCHANGED <<content, width, height, calls>>
       ELSE /\ content' = Rect_ContentAfter(options, content)
            /\ width' = Rect_Width(options, content)
            /\ height' = Rect_Height(options, content)
            /\ calls' =
                 IF Truthy(width') /\ Truthy(height')
                 THEN Rect_drawCtx(width', height', BorderStyleOf(options).radius,
                                   options.backgroundColor)
                      \o Rect_drawBorder(width', height', BorderStyleOf(options))
                      \o (IF Rect_HasContent(content)
                          THEN Rect_drawText(content', options, pad'[1], pad'[4],
                                   Px(OrDefault(options.fontStyle.rowGap, 0)))
                          ELSE <<>>)
                 ELSE <<>>
            /\ pc' = "done"
            /\ error' = error
    /\ UNCHANGED <<preset, options, image>>

Next ==
    \/ TextGraphicsCall
    \/ LoadImageResolve
    \/ LoadImageReject
    \/ TextGraphicsResume
    \/ RectangleCall

Spec == Init /\ [][Next]_vars

\* The styles: outlines, gradients and text layout, without an image
InitStyle ==
    \/ Start({"TextGraphics", "rectangle"}, OutlineOptions, {StringContent(<<65>>)})
    \/ Start({"TextGraphics"}, GradientOptions, {NoContent})
    \/ Start({"TextGraphics"}, LayoutOptions, {ArrayContent(a) : a \in Arrays(Lines)})

NextStyle ==
    \/ TextGraphicsCall
    \/ TextGraphicsResume
    \/ RectangleCall

SpecStyle == InitStyle /\ [][NextStyle]_vars

---------------------------------------------------------------------------
(* Properties *)

\* the positions in the log of the calls made by one of the functions fns
CallsBy(fns) == {i \in 1..Len(calls) : calls[i].by \in fns}

CallsOf(op) == {i \in 1..Len(calls) : calls[i].op = op}

Sized == Truthy(width) /\ Truthy(height)

\* the call has returned or thrown
Finished == pc \in {"done", "rejected"}

\* C1: in a render by TextGraphics with a non-zero size every call of the
\* background pass (its image load and drawImage included) precedes every call
\* of the border and text passes, and every border call precedes every text
\* call; while the image is loading no border or text call has been made, and
\* once the border and text passes run the image has been drawn.
C1_PassOrder ==
    preset = "TextGraphics" =>
        /\ \A i \in CallsBy({"drawCtx"}) : \A j \in CallsBy({"drawBorder", "drawText"}) : i < j
        /\ \A i \in CallsBy({"drawBorder"}) : \A j \in CallsBy({"drawText"}) : i < j
        /\ pc \in {"start", "awaitImage"} => CallsBy({"drawBorder", "drawText"}) = {}
        /\ (CallsOf("loadImage") # {} /\ CallsBy({"drawBorder", "drawText"}) # {})
              => /\ image = "loaded"
                 /\ \A j \in CallsBy({"drawBorder", "drawText"}) :
                        \E i \in CallsOf("drawImage") : i < j

\* a render that loaded an image and then stroked a border and painted text
C1_Witness ==
    /\ preset = "TextGraphics"
    /\ pc = "done"
    /\ Sized
    /\ CallsOf("drawImage") # {}
    /\ CallsBy({"drawBorder"}) # {}
    /\ CallsBy({"drawText"}) # {}

NoVisibleContent ==
    content.kind = "undefined" \/ \A i \in 1..Len(content.lines) : content.lines[i] = <<>>

\* C2: a render whose resolved width or height is 0 returns the surface without
\* an error, having run no painter and started no image load; and with content
\* absent or made of empty lines only and both dimensions 'auto' the size
\* resolves to exactly 0x0.
C2_ZeroSizeSkips ==
    Finished =>
        /\ (width = 0 \/ height = 0) =>
              pc = "done" /\ error = "" /\ calls = <<>> /\ image = "none"
        /\ (NoVisibleContent /\ Len(options.width) = 0 /\ Len(options.height) = 0) =>
              width = 0 /\ height = 0 /\ pc = "done" /\ calls = <<>>

\* the corner of the box where an arc starting at angle q (in units of PI/2) sits
BoxCorner(q) ==
    CASE q = 2 -> <<0, 0>>
      [] q = 3 -> <<width, 0>>
      [] q = 0 -> <<width, height>>
      [] q = 1 -> <<0, height>>

\* <<centre x, centre y, radius>> of the corner that one pass traced at angle q:
\* those of its arc there, or the sharp corner of the box when it traced none
CornerTraced(by, q) ==
    LET arcs == {i \in CallsBy({by}) : calls[i].op = "arc" /\ calls[i].a[4] = q}
    IN  IF arcs = {} THEN <<BoxCorner(q)[1], BoxCorner(q)[2], 0>>
        ELSE LET i == CHOOSE i \in arcs : TRUE
             IN  <<calls[i].a[1], calls[i].a[2], calls[i].a[3]>>

\* C3: when both the background pass and the border pass have traced their
\* outline, the two outlines have the same radius and the same arc centre at
\* each of the four corners.
C3_SameOutline ==
    (pc = "done" /\ CallsBy({"drawCtx"}) # {} /\ CallsBy({"drawBorder"}) # {}) =>
        \A q \in 0..3 : CornerTraced("drawCtx", q) = CornerTraced("drawBorder", q)

\* the log of a whole render of options o and content c, the image loading
WholeRender(o, c) ==
    IF preset = "TextGraphics"
    THEN LET w == TG_Width(o, c)
             h == TG_Height(o, c)
             p == Padding(o)
         IN  IF Truthy(w) /\ Truthy(h)
             THEN TG_drawCtxSync(w, h, BorderStyleOf(o).radius, o.backgroundStyle)
                  \o (IF o.backgroundStyle.image # ""
                      THEN TG_drawCtxImage(o.backgroundStyle) ELSE <<>>)
                  \o TG_drawBorder(w, h, BorderStyleOf(o))
                  \o TG_drawText(w - (p[4] + p[2]), TG_Text(c), o.fontStyle, p[1], p[4],
                                 Px(OrDefault(o.fontStyle.rowGap, 0)))
             ELSE <<>>
    ELSE LET w == Rect_Width(o, c)
             h == Rect_Height(o, c)
             p == Padding(o)
         IN  IF Truthy(w) /\ Truthy(h)
             THEN Rect_drawCtx(w, h, BorderStyleOf(o).radius, o.backgroundColor)
                  \o Rect_drawBorder(w, h, BorderStyleOf(o))
                  \o (IF Rect_HasContent(c)
                      THEN Rect_drawText(Rect_ContentAfter(o, c), o, p[1], p[4],
                                         Px(OrDefault(o.fontStyle.rowGap, 0)))
                      ELSE <<>>)
             ELSE <<>>

\* C5: the border pass makes no call when the border width is 0 or the border
\* colour is unset, and a finished render with an explicit zero-width border
\* has the size and the calls of the render of the same options without a
\* border style.
C5_ZeroBorder ==
    LET b == BorderStyleOf(options)
        without == [options EXCEPT !.borderStyle = <<>>]
    IN  /\ (~Truthy(OrDefault(b.width, 0)) \/ b.color = "") => CallsBy({"drawBorder"}) = {}
        /\ (pc = "done" /\ options.borderStyle # <<>> /\ b.width = <<0>>) =>
              /\ width = (IF preset = "TextGraphics" THEN TG_Width(without, content)
                          ELSE Rect_Width(without, content))
              /\ height = (IF preset = "TextGraphics" THEN TG_Height(without, content)
                           ELSE Rect_Height(without, content))
              /\ calls = WholeRender(without, content)

\* the keys of the gradient stops added so far, in the order they were added
StopsAdded ==
    LET RECURSIVE Keys(_)
        Keys(i) == IF i > Len(calls) THEN <<>>
                   ELSE (IF calls[i].op = "addColorStop" THEN <<calls[i].a[1]>> ELSE <<>>)
                        \o Keys(i + 1)
    IN  Keys(1)

\* C6: once the background pass has filled a gradient, it has added exactly one
\* stop per key of the colour mapping, in ascending order of the keys.
C6_AscendingStops ==
    (options.backgroundStyle.color.kind = "gradient" /\ CallsOf("fillRect") # {}) =>
        LET ks == StopsAdded
            stops == options.backgroundStyle.color.stops
        IN  /\ Len(ks) = Len(stops)
            /\ {ks[i] : i \in 1..Len(ks)} = {stops[i].key : i \in 1..Len(stops)}
            /\ \A i \in 1..(Len(ks) - 1) : ks[i] < ks[i + 1]

\* the text one row of the canvas was painted with: the strings of the
\* fillText calls at the height top, in the order of the calls
RowAt(top) ==
    LET RECURSIVE Row(_)
        Row(i) == IF i > Len(calls) THEN <<>>
                  ELSE (IF calls[i].op = "fillText" /\ calls[i].a[2] = top
                        THEN calls[i].str ELSE <<>>)
                       \o Row(i + 1)
    IN  Row(1)

\* the heights of the painted rows, from the top of the canvas down
RowTops == AscendingKeys({calls[i].a[2] : i \in CallsOf("fillText")})

\* the painted rows, from the top of the canvas down
PaintedRows == [k \in 1..Len(RowTops) |-> RowAt(RowTops[k])]

\* the first and the last fillText call of the row at the height top
FirstOfRow(top) ==
    CHOOSE i \in CallsOf("fillText") :
        calls[i].a[2] = top /\ \A j \in CallsOf("fillText") : calls[j].a[2] = top => i <= j

LastOfRow(top) ==
    CHOOSE i \in CallsOf("fillText") :
        calls[i].a[2] = top /\ \A j \in CallsOf("fillText") : calls[j].a[2] = top => j <= i

\* C7: with right alignment every row painted by TextGraphics starts at
\* leftPadding + available - lineWidth and its last glyph ends at
\* leftPadding + available, where available = width - leftPadding -
\* rightPadding and lineWidth = stringWidth * fontSize + letterSpacing *
\* (length - 1): the advances over the row sum to lineWidth plus one trailing
\* letterSpacing.
C7_RightEdges ==
    (preset = "TextGraphics" /\ pc = "done" /\ options.fontStyle.textAlign = "right") =>
        LET fontSize == TG_FontSize(options)
            letterSpacing == Px(OrDefault(options.fontStyle.letterSpacing, 0))
            available == width - pad[4] - pad[2]
        IN  \A k \in 1..Len(RowTops) :
                LET row == RowAt(RowTops[k])
                    first == calls[FirstOfRow(RowTops[k])]
                    last == calls[LastOfRow(RowTops[k])]
                    lineWidth == TextLenth(row, fontSize, letterSpacing)
                IN  /\ first.a[1] = pad[4] + available - lineWidth
                    /\ last.a[1] + Advance(last.str[1], fontSize, letterSpacing)
                          = first.a[1] + lineWidth + letterSpacing
                    /\ last.a[1] + Advance(last.str[1], fontSize, letterSpacing)
                          - letterSpacing = pad[4] + available

\* the rearrangements of a sequence
Reorderings(arr) ==
    {[i \in 1..Len(arr) |-> arr[f[i]]] :
        f \in {g \in [1..Len(arr) -> 1..Len(arr)] :
                  \A i, j \in 1..Len(arr) : i # j => g[i] # g[j]}}

\* C8: the width TextGraphics resolves for an 'auto' width is the width it
\* resolves for every reordering of the lines of the content.
C8_OrderIndependent ==
    (preset = "TextGraphics" /\ pc = "done" /\ Len(options.width) = 0
        /\ content.kind = "array") =>
        \A arr \in Reorderings(content.lines) :
            TG_Width(options, ArrayContent(arr)) = width

\* C9: in both presets a render leaves the caller's content as it was, and the
\* rows it has painted, from the top down, are the non-empty lines of the
\* content in the caller's order.
C9_LinesInOrder ==
    /\ [][content' = content]_vars
    /\ [](pc = "done" /\ Sized => PaintedRows = FilterBoolean(content.lines))

\* C10: with an 'auto' width every line of the text fits in the available
\* width, and the offset _calculateLeft gives it is not negative for any
\* alignment.
C10_LinesFit ==
    (preset = "TextGraphics" /\ pc = "done" /\ Len(options.width) = 0) =>
        LET fontSize == TG_FontSize(options)
            letterSpacing == Px(OrDefault(options.fontStyle.letterSpacing, 0))
            available == width - pad[4] - pad[2]
        IN  \A k \in 1..Len(text) :
                LET lineWidth == TextLenth(text[k], fontSize, letterSpacing)
                IN  /\ lineWidth <= available
                    /\ \A al \in {"left", "center", "right"} :
                          _calculateLeft(MaxTextLength(available, text, fontSize,
                                                       letterSpacing),
                                         lineWidth, al) >= 0

===========================================================================
